---- MODULE Spec2Model ----
(***************************************************************************)
(* Model of stable_vector<T, ChunkSize> (src/stable_vector.h): a directory *)
(* m_chunks of exclusively owned fixed-capacity chunks.  Chunks live on a  *)
(* heap and are named by their address (a chunk id), so that the identity  *)
(* of the chunk holding an element can be stated.  T is an integer-like    *)
(* value type whose copy cannot fail; the only failure of a growth call is *)
(* a failed chunk allocation.                                              *)
(***************************************************************************)
EXTENDS Integers, Sequences, FiniteSets, TLC

\* ---- bounds of the model ------------------------------------------------
HalfChunk == 1
MaxChunks == 3
MaxSize == 5
MaxStack == 3
SizeBits == 6
MaxTwoSize == 3

\* ---- program constants --------------------------------------------------
\* template parameter ChunkSize; the static_assert of line 28 requires it even
ChunkSize == 2 * HalfChunk

\* the values of T; DefaultT is T{} as built by emplace_back()
DefaultT == 0
Values == {DefaultT, 1}
NoVal == -1

Containers == {"a", "b"}

\* size_type is an unsigned and difference_type a signed integer of SizeBits bits
SizeMod == 2 ^ SizeBits
to_size(n) == n % SizeMod
to_diff(u) == IF u >= SizeMod \div 2 THEN u - SizeMod ELSE u

\* no iterator kept
NoIter == [c |-> "none", m_index |-> 0]

VARIABLES heap, m_chunks, hist, last, call, iter

vars == <<heap, m_chunks, hist, last, call, iter>>

\* heap     : chunk id -> contents of that chunk_type (a static_vector)
\* m_chunks : constructed container -> its sequence of chunk ids
\* hist     : constructed container -> the sequence of values appended to it
\* last     : the last call made and what it returned or threw
\* call     : the stack of a running const front()/back() call
\* iter     : an iterator the caller keeps, as (m_container, m_index)

\* ---- helpers over one container's directory ----------------------------
Last(s) == s[Len(s)]

IsPrefix(s, t) == Len(s) <= Len(t) /\ \A k \in 1..Len(s) : s[k] = t[k]

ChunkIds(mc) == {mc[k] : k \in 1..Len(mc)}

\* the address the allocator hands out: the lowest one not in use
FreshId(h) ==
  CHOOSE id \in 1..(Cardinality(DOMAIN h) + 1) :
    id \notin DOMAIN h /\ \A j \in 1..(id - 1) : j \in DOMAIN h

RECURSIVE accumulate(_, _, _)
accumulate(h, mc, s) ==
  IF mc = <<>> THEN s ELSE accumulate(h, Tail(mc), s + Len(h[Head(mc)]))

size(h, mc) == accumulate(h, mc, 0)

capacity(mc) == Len(mc) * ChunkSize

empty(mc) == mc = <<>>

add_chunk(h, mc) ==
  LET id == FreshId(h)
  IN  [h  |-> [x \in DOMAIN h \cup {id} |-> IF x = id THEN <<>> ELSE h[x]],
       mc |-> Append(mc, id)]

\* the condition of line 248 without its test for a full last chunk
needs_chunk_no_full_test(h, mc) == empty(mc)

\* the condition of line 248
needs_chunk(h, mc) == IF empty(mc) THEN TRUE ELSE Len(h[Last(mc)]) = ChunkSize

current_chunk(h, mc) ==
  IF needs_chunk(h, mc) THEN add_chunk(h, mc) ELSE [h |-> h, mc |-> mc]

\* an insertion at the chunk's front instead
chunk_push_front(ch, t) == <<t>> \o ch

\* chunk_type::push_back / emplace_back: the element goes behind the chunk's last
chunk_push_back(ch, t) == Append(ch, t)

\* push_back / emplace_back when no allocation fails
do_push_back(h, mc, t) ==
  LET s  == current_chunk(h, mc)
      id == Last(s.mc)
  IN  [h  |-> [s.h EXCEPT ![id] = chunk_push_back(@, t)],
       mc |-> s.mc]

\* the loop of reserve; failAt counts the allocations that succeed before one
\* throws (a negative failAt: none throws)
RECURSIVE reserve_loop(_, _, _, _)
reserve_loop(h, mc, i, failAt) ==
  IF i > 0
  THEN IF failAt = 0
       THEN [h |-> h, mc |-> mc, status |-> "bad_alloc"]
       ELSE LET s == add_chunk(h, mc)
            IN  reserve_loop(s.h, s.mc, i - ChunkSize, failAt - 1)
  ELSE [h |-> h, mc |-> mc, status |-> "ok"]

\* what an access outside the occupied slots can produce: any bit pattern read
\* as a T, or the abort of a checked build
Undefined ==
  {[status |-> "ok", val |-> v] : v \in Values} \cup {[status |-> "abort", val |-> NoVal]}

\* the chunk index taken with the remainder instead of the quotient
slot_chunk_rem(i) == i % ChunkSize

\* the chunk and offset operator[] computes
slot_chunk(i) == i \div ChunkSize
slot_offset(i) == i % ChunkSize

\* operator[](i): the set of outcomes
subscript(h, mc, i) ==
  IF slot_chunk(i) < Len(mc) /\ slot_offset(i) < Len(h[mc[slot_chunk(i) + 1]])
  THEN {[status |-> "ok", val |-> h[mc[slot_chunk(i) + 1]][slot_offset(i) + 1]]}
  ELSE Undefined

\* m_chunks.front()->front()
front_result(h, mc) ==
  IF mc # <<>> /\ h[mc[1]] # <<>>
  THEN {[status |-> "ok", val |-> h[mc[1]][1]]}
  ELSE Undefined

\* m_chunks.back()->back()
back_result(h, mc) ==
  IF mc # <<>> /\ h[Last(mc)] # <<>>
  THEN {[status |-> "ok", val |-> Last(h[Last(mc)])]}
  ELSE Undefined

\* at(i): the set of outcomes
at_result(h, mc, i) ==
  IF i >= size(h, mc)
  THEN {[status |-> "out_of_range", val |-> NoVal]}
  ELSE subscript(h, mc, i)

\* ---- the constructors (no allocation fails: the object exists) ----------
\* stable_vector(count, value)
RECURSIVE ctor_fill(_, _, _, _, _)
ctor_fill(h, mc, i, count, value) ==
  IF i < count
  THEN LET s == do_push_back(h, mc, value)
       IN  ctor_fill(s.h, s.mc, i + 1, count, value)
  ELSE [h |-> h, mc |-> mc]

\* stable_vector(count): emplace_back() builds a T{}
RECURSIVE ctor_count(_, _, _, _)
ctor_count(h, mc, i, count) ==
  IF i < count
  THEN LET s == do_push_back(h, mc, DefaultT)
       IN  ctor_count(s.h, s.mc, i + 1, count)
  ELSE [h |-> h, mc |-> mc]

\* stable_vector(first, last); rng is what [first, last) still holds
RECURSIVE ctor_range(_, _, _)
ctor_range(h, mc, rng) ==
  IF rng # <<>>
  THEN LET s == do_push_back(h, mc, Head(rng))
       IN  ctor_range(s.h, s.mc, Tail(rng))
  ELSE [h |-> h, mc |-> mc]

\* stable_vector(std::initializer_list<T>)
RECURSIVE ctor_ilist(_, _, _, _)
ctor_ilist(h, mc, ilist, k) ==
  IF k <= Len(ilist)
  THEN LET s == do_push_back(h, mc, ilist[k])
       IN  ctor_ilist(s.h, s.mc, ilist, k + 1)
  ELSE [h |-> h, mc |-> mc]

EmptyHeap == [x \in {} |-> <<>>]

\* the known sequences a container is built from
KnownSeqs == UNION {[1..n -> Values] : n \in 0..MaxSize}

\* ---- the growth operations ---------------------------------------------
\* elements stored in all chunks (bounds the model)
TotalSize ==
  Cardinality({p \in (DOMAIN heap) \X (1..ChunkSize) : p[2] <= Len(heap[p[1]])})

\* an append either fails to allocate the chunk it needs or stores the element
push_back(c, t) ==
  /\ c \in DOMAIN m_chunks
  /\ UNCHANGED iter
  /\ TotalSize < MaxSize
  /\ call.status = "idle"
  /\ UNCHANGED call
  /\ \/ /\ needs_chunk(heap, m_chunks[c])
        /\ last' = [op |-> "push_back", c |-> c, status |-> "bad_alloc"]
        /\ UNCHANGED <<heap, m_chunks, hist>>
     \/ /\ needs_chunk(heap, m_chunks[c]) => Cardinality(DOMAIN heap) < MaxChunks
        /\ LET s == do_push_back(heap, m_chunks[c], t)
           IN  /\ heap' = s.h
               /\ m_chunks' = [m_chunks EXCEPT ![c] = s.mc]
        /\ hist' = [hist EXCEPT ![c] = Append(@, t)]
        /\ last' = [op |-> "push_back", c |-> c, status |-> "ok"]

emplace_back(c, t) ==
  /\ c \in DOMAIN m_chunks
  /\ UNCHANGED iter
  /\ TotalSize < MaxSize
  /\ call.status = "idle"
  /\ UNCHANGED call
  /\ \/ /\ needs_chunk(heap, m_chunks[c])
        /\ last' = [op |-> "emplace_back", c |-> c, status |-> "bad_alloc"]
        /\ UNCHANGED <<heap, m_chunks, hist>>
     \/ /\ needs_chunk(heap, m_chunks[c]) => Cardinality(DOMAIN heap) < MaxChunks
        /\ LET s == do_push_back(heap, m_chunks[c], t)
           IN  /\ heap' = s.h
               /\ m_chunks' = [m_chunks EXCEPT ![c] = s.mc]
        /\ hist' = [hist EXCEPT ![c] = Append(@, t)]
        /\ last' = [op |-> "emplace_back", c |-> c, status |-> "ok"]

reserve(c, new_capacity, failAt) ==
  /\ c \in DOMAIN m_chunks
  /\ UNCHANGED iter
  /\ call.status = "idle"
  /\ UNCHANGED <<call, hist>>
  \* an allocation can only fail if the loop gets to make it
  /\ failAt >= 0 => failAt * ChunkSize < to_diff(to_size(new_capacity - capacity(m_chunks[c])))
  /\ LET initial_capacity == capacity(m_chunks[c])
         i0 == to_diff(to_size(new_capacity - initial_capacity))
         s == reserve_loop(heap, m_chunks[c], i0, failAt)
     IN  /\ Cardinality(DOMAIN s.h) <= MaxChunks
         /\ heap' = s.h
         /\ m_chunks' = [m_chunks EXCEPT ![c] = s.mc]
         /\ last' = [op |-> "reserve", c |-> c, status |-> s.status]

\* ---- the accessors -----------------------------------------------------
at(c, i) ==
  /\ c \in DOMAIN m_chunks
  /\ UNCHANGED iter
  /\ call.status = "idle"
  /\ UNCHANGED <<heap, m_chunks, hist, call>>
  /\ \E r \in at_result(heap, m_chunks[c], i) :
       last' = [op |-> "at", c |-> c, i |-> i, status |-> r.status, val |-> r.val]

front(c) ==
  /\ c \in DOMAIN m_chunks
  /\ UNCHANGED iter
  /\ call.status = "idle"
  /\ size(heap, m_chunks[c]) > 0
  /\ UNCHANGED <<heap, m_chunks, hist, call>>
  /\ \E r \in front_result(heap, m_chunks[c]) :
       last' = [op |-> "front", c |-> c, status |-> r.status, val |-> r.val]

back(c) ==
  /\ c \in DOMAIN m_chunks
  /\ UNCHANGED iter
  /\ call.status = "idle"
  /\ size(heap, m_chunks[c]) > 0
  /\ UNCHANGED <<heap, m_chunks, hist, call>>
  /\ \E r \in back_result(heap, m_chunks[c]) :
       last' = [op |-> "back", c |-> c, status |-> r.status, val |-> r.val]

\* ---- a default-constructed container under growth and access ------------
Idle == [status |-> "idle", fn |-> "none", c |-> "a", depth |-> 0, val |-> NoVal]

Init ==
  /\ heap = EmptyHeap
  /\ m_chunks = [c \in {"a"} |-> <<>>]
  /\ hist = [c \in {"a"} |-> <<>>]
  /\ last = [op |-> "ctor", c |-> "a", status |-> "ok"]
  /\ call = Idle
  /\ iter = NoIter

Next ==
  \/ \E t \in Values : push_back("a", t)
  \/ \E t \in Values : emplace_back("a", t)
  \/ \E n \in 0..(MaxChunks * ChunkSize), f \in -1..(MaxChunks - 1) : reserve("a", n, f)
  \/ \E i \in 0..MaxSize : at("a", i)
  \/ front("a")
  \/ back("a")

Spec == Init /\ [][Next]_vars

\* ---- properties of the growth of one container --------------------------
GrowthOps == {"push_back", "emplace_back", "reserve"}

\* the slot operator[](i) reads exists and is occupied
SlotOccupied(h, mc, i) ==
  /\ slot_chunk(i) < Len(mc)
  /\ slot_offset(i) < Len(h[mc[slot_chunk(i) + 1]])

\* C1: for every logical index i below size(), the slot (i / ChunkSize,
\* i % ChunkSize) read by operator[](i) exists, is occupied and holds the value
\* of the (i+1)-th append.
C1_IndexedSlotHoldsAppend ==
  \A c \in DOMAIN m_chunks :
    \A i \in 0..(size(heap, m_chunks[c]) - 1) :
      /\ SlotOccupied(heap, m_chunks[c], i)
      /\ subscript(heap, m_chunks[c], i) = {[status |-> "ok", val |-> hist[c][i + 1]]}

\* C2: every chunk but the last holds exactly ChunkSize elements, the last one
\* at most ChunkSize, and size() == (chunks - 1) * ChunkSize + size of the last.
C2_ChunksFullButLast ==
  \A c \in DOMAIN m_chunks :
    LET mc == m_chunks[c]
    IN  /\ \A k \in 1..(Len(mc) - 1) : Len(heap[mc[k]]) = ChunkSize
        /\ mc # <<>> =>
             /\ Len(heap[Last(mc)]) \in 0..ChunkSize
             /\ size(heap, mc) = (Len(mc) - 1) * ChunkSize + Len(heap[Last(mc)])

\* what a growth step may do to the chunks: every chunk stays where it is in
\* its directory and on the heap, every stored element keeps its chunk, offset
\* and value, and only the last chunk of the directory receives elements
GrowthKeepsSlots ==
  /\ \A c \in DOMAIN m_chunks :
       /\ c \in DOMAIN m_chunks'
       /\ IsPrefix(m_chunks[c], m_chunks'[c])
  /\ \A id \in DOMAIN heap :
       /\ id \in DOMAIN heap'
       /\ IsPrefix(heap[id], heap'[id])
       /\ heap'[id] # heap[id] => id = Last(m_chunks'[last'.c])

\* C3: reference stability: a push_back, emplace_back or reserve never changes
\* the chunk, the offset or the value of a stored element and never removes or
\* replaces a chunk; it only appends chunks or appends into the last chunk.
C3_ReferenceStability ==
  [][last'.op \in GrowthOps => GrowthKeepsSlots]_vars

\* an element of a completed first chunk has seen two further chunks appear
C3_Witness ==
  /\ last.op = "push_back" /\ last.status = "ok"
  /\ Len(m_chunks["a"]) >= 3
  /\ Len(heap[m_chunks["a"][1]]) = ChunkSize
  /\ Len(heap[Last(m_chunks["a"])]) > 0

\* C4: at(i) throws out_of_range for every i >= size() and otherwise returns
\* the stored element at logical index i (the container is never changed).
C4_AtChecked ==
  last.op = "at" =>
    IF last.i >= size(heap, m_chunks[last.c])
    THEN last.status = "out_of_range"
    ELSE last.status = "ok" /\ last.val = hist[last.c][last.i + 1]

\* C5: a growth call whose chunk allocation fails leaves the container exactly
\* as it was before the call.
C5_FailedGrowthChangesNothing ==
  [][(last'.op \in GrowthOps /\ last'.status = "bad_alloc")
       => (heap' = heap /\ m_chunks' = m_chunks)]_vars

\* C8: on a non-empty container front() returns the element at logical index 0
\* and back() the element at logical index size() - 1.
C8_FrontBack ==
  /\ last.op = "front" => (last.status = "ok" /\ last.val = hist[last.c][1])
  /\ last.op = "back" =>
       (last.status = "ok" /\ last.val = hist[last.c][size(heap, m_chunks[last.c])])

\* ---- a container built by a constructor, then appended to and read -------
InitCtor ==
  \E kind \in {"default", "fill", "count", "range", "ilist"}, v \in KnownSeqs :
    /\ kind = "default" => v = <<>>
    /\ kind = "fill" => \A k \in 1..Len(v) : v[k] = v[1]
    /\ kind = "count" => \A k \in 1..Len(v) : v[k] = DefaultT
    /\ LET s == CASE kind = "default" -> [h |-> EmptyHeap, mc |-> <<>>]
                  [] kind = "fill" ->
                       ctor_fill(EmptyHeap, <<>>, 0, Len(v), IF v = <<>> THEN DefaultT ELSE v[1])
                  [] kind = "count" -> ctor_count(EmptyHeap, <<>>, 0, Len(v))
                  [] kind = "range" -> ctor_range(EmptyHeap, <<>>, v)
                  [] kind = "ilist" -> ctor_ilist(EmptyHeap, <<>>, v, 1)
       IN  /\ heap = s.h
           /\ m_chunks = [c \in {"a"} |-> s.mc]
    /\ hist = [c \in {"a"} |-> v]
    /\ last = [op |-> "ctor", c |-> "a", status |-> "ok", kind |-> kind]
    /\ call = Idle
    /\ iter = NoIter

NextAppend ==
  \/ \E t \in Values : push_back("a", t)
  \/ \E t \in Values : emplace_back("a", t)
  \/ \E i \in 0..MaxSize : at("a", i)
  \/ front("a")
  \/ back("a")

SpecAppend == InitCtor /\ [][NextAppend]_vars

\* C6: a container built from a known sequence v[0..n) by a constructor or by
\* successive appends has size() == n and container[i] == v[i] for every
\* i < n; at(n - 1) returns v[n - 1] and at(n) fails.
C6_BuiltFromSequence ==
  LET mc == m_chunks["a"]
      v  == hist["a"]
      n  == Len(v)
  IN  /\ size(heap, mc) = n
      /\ \A i \in 0..(n - 1) :
           /\ subscript(heap, mc, i) = {[status |-> "ok", val |-> v[i + 1]]}
           /\ at_result(heap, mc, i) = {[status |-> "ok", val |-> v[i + 1]]}
      /\ at_result(heap, mc, n) = {[status |-> "out_of_range", val |-> NoVal]}

\* a sequence that crosses a chunk boundary with different values on its sides
C6_Witness ==
  /\ Len(hist["a"]) = MaxSize
  /\ MaxSize > ChunkSize
  /\ hist["a"][ChunkSize] # hist["a"][ChunkSize + 1]
  /\ size(heap, m_chunks["a"]) = MaxSize

CeilDiv(n, d) == (n + d - 1) \div d

\* C7: with appends only, capacity() == ceil(size() / ChunkSize) * ChunkSize
\* after every call, and an append allocates a chunk exactly when the size it
\* finds is a multiple of ChunkSize.
C7_CapacityFollowsSize ==
  /\ [](capacity(m_chunks["a"]) = CeilDiv(size(heap, m_chunks["a"]), ChunkSize) * ChunkSize)
  /\ [][(last'.op \in {"push_back", "emplace_back"} /\ last'.status = "ok")
          => Len(m_chunks'["a"]) - Len(m_chunks["a"]) =
               (IF size(heap, m_chunks["a"]) % ChunkSize = 0 THEN 1 ELSE 0)]_vars

\* an append that found a full last chunk
C7_Witness ==
  /\ last.op \in {"push_back", "emplace_back"} /\ last.status = "ok"
  /\ size(heap, m_chunks["a"]) = ChunkSize + 1
  /\ capacity(m_chunks["a"]) = 2 * ChunkSize

\* ---- front() const and back() const --------------------------------------
\* Inside a const member function *this is const, so the call front() of
\* line 135 (back() of line 138) names the const overload itself: the body
\* calls itself and has no other path, so no execution reaches a return.  A
\* build that keeps the calls pushes frames until the stack is exhausted and
\* the process is killed; one that turns the tail call into a jump spins.
front_const(c) ==
  /\ c \in DOMAIN m_chunks
  /\ UNCHANGED iter
  /\ call.status = "idle"
  /\ size(heap, m_chunks[c]) > 0
  /\ call' = [status |-> "running", fn |-> "front", c |-> c, depth |-> 1, val |-> NoVal]
  /\ UNCHANGED <<heap, m_chunks, hist, last>>

back_const(c) ==
  /\ c \in DOMAIN m_chunks
  /\ UNCHANGED iter
  /\ call.status = "idle"
  /\ size(heap, m_chunks[c]) > 0
  /\ call' = [status |-> "running", fn |-> "back", c |-> c, depth |-> 1, val |-> NoVal]
  /\ UNCHANGED <<heap, m_chunks, hist, last>>

\* one execution of the body "return front();" (line 135)
front_const_body ==
  /\ call.status = "running"
  /\ UNCHANGED iter
  /\ call.fn = "front"
  /\ UNCHANGED <<heap, m_chunks, hist, last>>
  /\ \/ /\ call.depth < MaxStack
        /\ call' = [call EXCEPT !.depth = @ + 1]
     \/ /\ call.depth = MaxStack
        /\ call' = [call EXCEPT !.status = "stack_overflow"]
     \/ call' = [call EXCEPT !.status = "spinning"]

\* one execution of the body "return back();" (line 138)
back_const_body ==
  /\ call.status = "running"
  /\ UNCHANGED iter
  /\ call.fn = "back"
  /\ UNCHANGED <<heap, m_chunks, hist, last>>
  /\ \/ /\ call.depth < MaxStack
        /\ call' = [call EXCEPT !.depth = @ + 1]
     \/ /\ call.depth = MaxStack
        /\ call' = [call EXCEPT !.status = "stack_overflow"]
     \/ call' = [call EXCEPT !.status = "spinning"]

NextConst ==
  \/ front_const("a")
  \/ back_const("a")
  \/ front_const_body
  \/ back_const_body
  \/ front("a")
  \/ back("a")

\* a call that has started keeps executing
SpecConst ==
  InitCtor /\ [][NextConst]_vars /\ WF_vars(front_const_body) /\ WF_vars(back_const_body)

\* C9: front() const and back() const on a non-empty container terminate and
\* return the first, respectively last, element, as the non-const overloads do.
C9_ConstFrontBackReturn ==
  /\ (call.status = "running" /\ call.fn = "front")
       ~> (call.status = "returned" /\ {[status |-> "ok", val |-> call.val]}
                                         = front_result(heap, m_chunks[call.c]))
  /\ (call.status = "running" /\ call.fn = "back")
       ~> (call.status = "returned" /\ {[status |-> "ok", val |-> call.val]}
                                         = back_result(heap, m_chunks[call.c]))

\* ---- move construction and assignment from an rvalue ---------------------
\* a transfer that copies the handles and leaves them in the source
vector_keep_source(mc) == [to |-> mc, from |-> mc]

\* std::vector's move constructor: the new vector takes the elements (here the
\* chunk handles), the moved-from vector is left empty
vector_move(mc) == [to |-> mc, from |-> <<>>]

\* stable_vector(stable_vector&& other), for a container dst that does not exist yet
move_ctor(dst, src) ==
  /\ src \in DOMAIN m_chunks
  /\ UNCHANGED iter
  /\ dst \notin DOMAIN m_chunks
  /\ call.status = "idle"
  /\ LET mv == vector_move(m_chunks[src])
     IN  m_chunks' = [c \in DOMAIN m_chunks \cup {dst} |->
                        IF c = dst THEN mv.to ELSE IF c = src THEN mv.from ELSE m_chunks[c]]
  /\ hist' = [c \in DOMAIN hist \cup {dst} |->
                IF c = dst THEN hist[src] ELSE IF c = src THEN <<>> ELSE hist[c]]
  /\ last' = [op |-> "move_ctor", c |-> dst, src |-> src, status |-> "ok"]
  /\ UNCHANGED <<heap, call>>

\* dst = std::move(src): the parameter v of operator= is move-constructed from
\* src, swap(v) exchanges the directories of dst and v, and v's destructor
\* frees the chunks dst owned before
move_assign(dst, src) ==
  /\ src \in DOMAIN m_chunks
  /\ UNCHANGED iter
  /\ dst \in DOMAIN m_chunks
  /\ call.status = "idle"
  /\ LET mv      == vector_move(m_chunks[src])
         moved   == [m_chunks EXCEPT ![src] = mv.from]
         v       == mv.to
         swapped == [moved EXCEPT ![dst] = v]
         v2      == moved[dst]
     IN  /\ m_chunks' = swapped
         /\ heap' = [id \in DOMAIN heap \ ChunkIds(v2) |-> heap[id]]
  /\ hist' = [[hist EXCEPT ![src] = <<>>] EXCEPT ![dst] = hist[src]]
  /\ last' = [op |-> "move_assign", c |-> dst, src |-> src, status |-> "ok"]
  /\ UNCHANGED call

InitMove ==
  \E v \in KnownSeqs :
    /\ LET s == ctor_range(EmptyHeap, <<>>, v)
       IN  /\ heap = s.h
           /\ m_chunks = [c \in {"a"} |-> s.mc]
    /\ hist = [c \in {"a"} |-> v]
    /\ last = [op |-> "ctor", c |-> "a", status |-> "ok", kind |-> "range"]
    /\ call = Idle
    /\ iter = NoIter

NextMove ==
  \/ \E c \in Containers, t \in Values : push_back(c, t)
  \/ \E dst \in Containers, src \in Containers : move_ctor(dst, src)
  \/ \E dst \in Containers, src \in Containers : move_assign(dst, src)

SpecMove == InitMove /\ [][NextMove]_vars

MoveOps == {"move_ctor", "move_assign"}

\* C10: after a move the source (a different object) has no chunks, the
\* destination owns exactly the chunks the source owned with their contents
\* untouched, and a push_back on the moved-from source then behaves as on a
\* default-constructed container and leaves the destination alone.
C10_MoveTransfersChunks ==
  [][/\ (last'.op \in MoveOps /\ last'.src # last'.c) =>
          /\ empty(m_chunks'[last'.src])
          /\ size(heap', m_chunks'[last'.src]) = 0
          /\ capacity(m_chunks'[last'.src]) = 0
          /\ m_chunks'[last'.c] = m_chunks[last'.src]
          /\ \A id \in ChunkIds(m_chunks[last'.src]) :
               id \in DOMAIN heap' /\ heap'[id] = heap[id]
     /\ (/\ last.op \in MoveOps /\ last.src # last.c
         /\ last'.op = "push_back" /\ last'.status = "ok" /\ last'.c = last.src) =>
          /\ Len(m_chunks'[last.src]) = 1
          /\ heap'[m_chunks'[last.src][1]] = <<Last(hist'[last.src])>>
          /\ m_chunks'[last.src][1] \notin ChunkIds(m_chunks'[last.c])
          /\ m_chunks'[last.c] = m_chunks[last.c]
          /\ \A id \in ChunkIds(m_chunks[last.c]) : heap'[id] = heap[id]
    ]_vars

\* a moved-from source that has been appended to while the destination holds
\* the chunks it took over
C10_Witness ==
  /\ last.op = "push_back" /\ last.status = "ok"
  /\ DOMAIN m_chunks = Containers
  /\ Len(m_chunks[last.c]) = 1
  /\ \E d \in Containers \ {last.c} :
       Len(m_chunks[d]) >= 2 /\ Len(hist[d]) > ChunkSize

\* ---- iterators ---------------------------------------------------------
\* iterator_base(Container* c, size_type i)
iterator_base(c, i) == [c |-> c, m_index |-> i]

\* begin() / cbegin() and end() / cend() of container c with directory mc
begin(c) == iterator_base(c, 0)
end(h, c, mc) == iterator_base(c, size(h, mc))

\* iterator_base::operator++ and operator==
it_inc(it) == [it EXCEPT !.m_index = to_size(@ + 1)]
it_eq(it1, it2) == it1.c = it2.c /\ it1.m_index = it2.m_index

\* operator*: the set of outcomes of (*m_container)[m_index]; dir is m_chunks
it_deref(h, dir, it) == subscript(h, dir[it.c], it.m_index)

\* ---- operator== and operator!= -----------------------------------------
\* std::equal(first1, last1, first2): the set of outcomes
RECURSIVE equal_loop(_, _, _, _, _)
equal_loop(h, dir, first1, last1, first2) ==
  IF it_eq(first1, last1)
  THEN {"true"}
  ELSE LET A == it_deref(h, dir, first1)
           B == it_deref(h, dir, first2)
       IN  (IF \E r \in A \cup B : r.status = "abort" THEN {"abort"} ELSE {})
           \cup (IF \E ra \in A, rb \in B :
                      ra.status = "ok" /\ rb.status = "ok" /\ ra.val # rb.val
                 THEN {"false"} ELSE {})
           \cup (IF \E ra \in A, rb \in B :
                      ra.status = "ok" /\ rb.status = "ok" /\ ra.val = rb.val
                 THEN equal_loop(h, dir, it_inc(first1), last1, it_inc(first2))
                 ELSE {})

\* a == b: size() == c.size() && std::equal(cbegin(), cend(), c.cbegin())
operator_eq(h, dir, a, b) ==
  IF size(h, dir[a]) # size(h, dir[b])
  THEN {"false"}
  ELSE equal_loop(h, dir, begin(a), end(h, a, dir[a]), begin(b))

\* a != b: !operator==(c)
operator_ne(h, dir, a, b) ==
  {IF r = "true" THEN "false" ELSE IF r = "false" THEN "true" ELSE r :
     r \in operator_eq(h, dir, a, b)}

equals(a, b) ==
  /\ a \in DOMAIN m_chunks
  /\ b \in DOMAIN m_chunks
  /\ call.status = "idle"
  /\ UNCHANGED <<heap, m_chunks, hist, call, iter>>
  /\ \E r \in operator_eq(heap, m_chunks, a, b) :
       last' = [op |-> "operator==", c |-> a, rhs |-> b, status |-> "ok", val |-> r]

not_equals(a, b) ==
  /\ a \in DOMAIN m_chunks
  /\ b \in DOMAIN m_chunks
  /\ call.status = "idle"
  /\ UNCHANGED <<heap, m_chunks, hist, call, iter>>
  /\ \E r \in operator_ne(heap, m_chunks, a, b) :
       last' = [op |-> "operator!=", c |-> a, rhs |-> b, status |-> "ok", val |-> r]

\* ---- copy construction, copy assignment, swap, element write -----------
\* the chunks ids are removed from the heap
free_chunks(h, ids) == [id \in DOMAIN h \ ids |-> h[id]]

\* a new chunk that does not copy the elements of the source chunk
chunk_copy_empty(h, id) ==
  LET new == FreshId(h)
  IN  [h  |-> [x \in DOMAIN h \cup {new} |-> IF x = new THEN <<>> ELSE h[x]],
       id |-> new]

\* std::make_unique<chunk_type>(*chunk): a new chunk with the same elements
chunk_copy(h, id) ==
  LET new == FreshId(h)
  IN  [h  |-> [x \in DOMAIN h \cup {new} |-> IF x = new THEN h[id] ELSE h[x]],
       id |-> new]

\* the loop of the copy constructor over what is left of other.m_chunks; when
\* an allocation throws, unwinding destroys the chunks copied so far
RECURSIVE copy_loop(_, _, _, _)
copy_loop(h, rest, mc, failAt) ==
  IF rest = <<>>
  THEN [h |-> h, mc |-> mc, status |-> "ok"]
  ELSE IF failAt = 0
       THEN [h |-> free_chunks(h, ChunkIds(mc)), mc |-> <<>>, status |-> "bad_alloc"]
       ELSE LET cp == chunk_copy(h, Head(rest))
            IN  copy_loop(cp.h, Tail(rest), Append(mc, cp.id), failAt - 1)

\* stable_vector(const stable_vector& other), for a container dst that does
\* not exist yet (it does not come to exist if the constructor throws)
copy_ctor(dst, src, failAt) ==
  /\ src \in DOMAIN m_chunks
  /\ dst \notin DOMAIN m_chunks
  /\ call.status = "idle"
  /\ failAt < Len(m_chunks[src])
  /\ Cardinality(DOMAIN heap) + Len(m_chunks[src]) <= MaxChunks + 1
  /\ UNCHANGED <<call, iter>>
  /\ LET s == copy_loop(heap, m_chunks[src], <<>>, failAt)
     IN  /\ heap' = s.h
         /\ IF s.status = "ok"
            THEN /\ m_chunks' = [c \in DOMAIN m_chunks \cup {dst} |->
                                   IF c = dst THEN s.mc ELSE m_chunks[c]]
                 /\ hist' = [c \in DOMAIN hist \cup {dst} |->
                               IF c = dst THEN hist[src] ELSE hist[c]]
            ELSE UNCHANGED <<m_chunks, hist>>
         /\ last' = [op |-> "copy_ctor", c |-> dst, src |-> src, status |-> s.status]

\* an assignment that empties dst before it copies the chunks of src into it
copy_assign_in_place(dst, src, failAt) ==
  /\ src \in DOMAIN m_chunks
  /\ dst \in DOMAIN m_chunks
  /\ call.status = "idle"
  /\ failAt < Len(m_chunks[src])
  /\ Cardinality(DOMAIN heap) + Len(m_chunks[src]) <= MaxChunks + 1
  /\ UNCHANGED <<call, iter>>
  /\ LET s == copy_loop(heap, m_chunks[src], <<>>, failAt)
     IN  /\ m_chunks' = [m_chunks EXCEPT ![dst] = s.mc]
         /\ heap' = free_chunks(s.h, ChunkIds(m_chunks[dst]))
         /\ hist' = [hist EXCEPT ![dst] = IF s.status = "ok" THEN hist[src] ELSE <<>>]
         /\ last' = [op |-> "copy_assign", c |-> dst, src |-> src, status |-> s.status]

\* dst = src: the parameter v of operator= is copy-constructed from src (if
\* that throws operator= is never entered), swap(v) exchanges the directories
\* of dst and v, and v's destructor frees the chunks dst owned before
copy_assign(dst, src, failAt) ==
  /\ src \in DOMAIN m_chunks
  /\ dst \in DOMAIN m_chunks
  /\ call.status = "idle"
  /\ failAt < Len(m_chunks[src])
  /\ Cardinality(DOMAIN heap) + Len(m_chunks[src]) <= MaxChunks + 1
  /\ UNCHANGED <<call, iter>>
  /\ LET s == copy_loop(heap, m_chunks[src], <<>>, failAt)
     IN  /\ IF s.status = "ok"
            THEN /\ m_chunks' = [m_chunks EXCEPT ![dst] = s.mc]
                 /\ heap' = free_chunks(s.h, ChunkIds(m_chunks[dst]))
                 /\ hist' = [hist EXCEPT ![dst] = hist[src]]
            ELSE /\ heap' = s.h
                 /\ UNCHANGED <<m_chunks, hist>>
         /\ last' = [op |-> "copy_assign", c |-> dst, src |-> src, status |-> s.status]

\* an exchange that overwrites a's directory and leaves b's in place
swap_chunks_one_way(dir, a, b) == [c \in DOMAIN dir |-> IF c = a THEN dir[b] ELSE dir[c]]

\* std::swap(m_chunks, v.m_chunks)
swap_chunks(dir, a, b) == [c \in DOMAIN dir |-> IF c = a THEN dir[b] ELSE IF c = b THEN dir[a] ELSE dir[c]]

\* a.swap(b)
swap(a, b) ==
  /\ a \in DOMAIN m_chunks
  /\ b \in DOMAIN m_chunks
  /\ call.status = "idle"
  /\ m_chunks' = swap_chunks(m_chunks, a, b)
  /\ hist' = swap_chunks(hist, a, b)
  /\ last' = [op |-> "swap", c |-> a, rhs |-> b, status |-> "ok"]
  /\ UNCHANGED <<heap, call, iter>>

\* swap(l, r): l.swap(r)
swap_free(l, r) ==
  /\ l \in DOMAIN m_chunks
  /\ r \in DOMAIN m_chunks
  /\ call.status = "idle"
  /\ m_chunks' = swap_chunks(m_chunks, l, r)
  /\ hist' = swap_chunks(hist, l, r)
  /\ last' = [op |-> "swap_free", c |-> l, rhs |-> r, status |-> "ok"]
  /\ UNCHANGED <<heap, call, iter>>

\* c[i] = t for an index below size(): the write goes to the slot operator[]
\* computes; outside the occupied slots it lands in raw storage of the chunk
\* (nothing a later defined read can see) or a checked build aborts
assign_elem(c, i, t) ==
  /\ c \in DOMAIN m_chunks
  /\ call.status = "idle"
  /\ i < size(heap, m_chunks[c])
  /\ UNCHANGED <<m_chunks, call, iter>>
  /\ hist' = [hist EXCEPT ![c][i + 1] = t]
  /\ IF slot_offset(i) < Len(heap[m_chunks[c][slot_chunk(i) + 1]])
     THEN /\ heap' = [heap EXCEPT ![m_chunks[c][slot_chunk(i) + 1]][slot_offset(i) + 1] = t]
          /\ last' = [op |-> "assign_elem", c |-> c, i |-> i, status |-> "ok"]
     ELSE /\ UNCHANGED heap
          /\ \E st \in {"ok", "abort"} :
               last' = [op |-> "assign_elem", c |-> c, i |-> i, status |-> st]


\* ---- emptiness and the use of reserved capacity -------------------------
\* C19: in every reachable state empty() is true iff size() == 0, and iff
\* begin() == end().
C19_EmptyIffNoElements ==
  \A c \in DOMAIN m_chunks :
    /\ empty(m_chunks[c]) <=> (size(heap, m_chunks[c]) = 0)
    /\ empty(m_chunks[c]) <=> it_eq(begin(c), end(heap, c, m_chunks[c]))

\* C20: capacity is consumed before a chunk is allocated: an append made while
\* size() < capacity() leaves the directory as it is, and every append puts
\* its element into the slot (size() / ChunkSize, size() % ChunkSize) computed
\* from the size before the append.
C20_ReservedCapacityConsumed ==
  [][(last'.op \in {"push_back", "emplace_back"} /\ last'.status = "ok") =>
       LET c == last'.c
           n == size(heap, m_chunks[c])
       IN  /\ n < capacity(m_chunks[c]) => m_chunks'[c] = m_chunks[c]
           /\ slot_chunk(n) < Len(m_chunks'[c])
           /\ LET id == m_chunks'[c][slot_chunk(n) + 1]
              IN  /\ Len(heap'[id]) = slot_offset(n) + 1
                  /\ heap'[id][slot_offset(n) + 1] = Last(hist'[c])
                  /\ id \in DOMAIN heap => Len(heap[id]) = slot_offset(n)]_vars

\* ---- reserve over the whole range of size_type ---------------------------
NextReserve ==
  \/ \E c \in Containers, t \in Values : push_back(c, t)
  \/ \E c \in Containers, n \in 0..(SizeMod - 1), f \in -1..(MaxChunks - 1) :
       reserve(c, n, f)

SpecReserve == Init /\ [][NextReserve]_vars

\* what a returning reserve(n) has done to container c
ReserveAppendsEmptyChunks(c, n) ==
  /\ capacity(m_chunks'[c]) >= n
  /\ capacity(m_chunks'[c]) >= capacity(m_chunks[c])
  /\ size(heap', m_chunks'[c]) = size(heap, m_chunks[c])
  /\ IsPrefix(m_chunks[c], m_chunks'[c])
  /\ \A id \in DOMAIN heap : id \in DOMAIN heap' /\ heap'[id] = heap[id]
  /\ \A id \in DOMAIN heap' \ DOMAIN heap : heap'[id] = <<>>
  /\ n <= capacity(m_chunks[c]) => (heap' = heap /\ m_chunks' = m_chunks)

\* C13: reserve(target_capacity) only appends empty chunks: when it returns,
\* capacity() >= target_capacity, capacity() has not shrunk, size() and every
\* stored element (value, chunk, offset) are unchanged, and a target that is
\* not above capacity() changes nothing.
C13_ReserveReachesTarget ==
  [][\A c \in Containers, n \in 0..(SizeMod - 1) :
       reserve(c, n, -1) => ReserveAppendsEmptyChunks(c, n)]_vars

\* ---- two containers ------------------------------------------------------
\* the elements of both containers together are bounded by MaxTwoSize
Held(c) == IF c \in DOMAIN hist THEN Len(hist[c]) ELSE 0
TwoRoom(n) == TotalSize + n <= MaxTwoSize

\* stable_vector<T, ChunkSize> a, b;
InitTwo ==
  /\ heap = EmptyHeap
  /\ m_chunks = [c \in Containers |-> <<>>]
  /\ hist = [c \in Containers |-> <<>>]
  /\ last = [op |-> "ctor", c |-> "a", status |-> "ok"]
  /\ call = Idle
  /\ iter = NoIter

\* the sequence of the contents of the chunks of a directory
Contents(h, mc) == [k \in 1..Len(mc) |-> h[mc[k]]]

\* growth, copy construction, element writes and operator==
NextCopy ==
  \/ \E c \in Containers, t \in Values : push_back(c, t) /\ TwoRoom(1)
  \/ \E c \in Containers, t \in Values : emplace_back(c, t) /\ TwoRoom(1)
  \/ \E c \in Containers, k \in 0..MaxChunks, f \in -1..(MaxChunks - 1) :
       reserve(c, k * ChunkSize, f)
  \/ \E dst \in Containers, src \in Containers, f \in -1..(MaxChunks - 1) :
       copy_ctor(dst, src, f) /\ TwoRoom(Held(src))
  \/ \E c \in Containers, i \in 0..(MaxTwoSize - 1), t \in Values : assign_elem(c, i, t)
  \/ \E a \in Containers, b \in Containers : equals(a, b)

SpecCopy == Init /\ [][NextCopy]_vars

WriteOps == {"push_back", "emplace_back", "reserve", "assign_elem"}

\* a step on container last'.c leaves the directory and the chunks of every
\* other container as they are
OtherContainersKept ==
  \A d \in DOMAIN m_chunks \ {last'.c} :
    /\ d \in DOMAIN m_chunks'
    /\ m_chunks'[d] = m_chunks[d]
    /\ \A id \in ChunkIds(m_chunks[d]) : id \in DOMAIN heap' /\ heap'[id] = heap[id]

\* C11: a copy-constructed container compares equal to its source and shares
\* no chunk with it; a later push_back, emplace_back, reserve or element write
\* on one of the two leaves the other's size, capacity and elements unchanged.
C11_CopyEqualIndependent ==
  /\ [](last.op = "copy_ctor" /\ last.status = "ok" =>
          /\ ChunkIds(m_chunks[last.c]) \cap ChunkIds(m_chunks[last.src]) = {}
          /\ operator_eq(heap, m_chunks, last.c, last.src) = {"true"})
  /\ [][last'.op \in WriteOps => OtherContainersKept]_vars

\* growth of two default-constructed containers, operator== and operator!=
NextCmp ==
  \/ \E c \in Containers, t \in Values : push_back(c, t) /\ TwoRoom(1)
  \/ \E c \in Containers, k \in 0..MaxChunks, f \in -1..(MaxChunks - 1) :
       reserve(c, k * ChunkSize, f)
  \/ \E a \in Containers, b \in Containers : equals(a, b)
  \/ \E a \in Containers, b \in Containers : not_equals(a, b)

SpecCmp == InitTwo /\ [][NextCmp]_vars

\* C14: a == b holds iff the two containers hold the same number of elements
\* and equal elements at every logical index, whatever their capacities and
\* chunk counts; a != b is the negation of a == b.
C14_EqualityIsElementwise ==
  /\ last.op = "operator==" =>
       last.val = (IF hist[last.c] = hist[last.rhs] THEN "true" ELSE "false")
  /\ last.op = "operator!=" =>
       last.val = (IF hist[last.c] = hist[last.rhs] THEN "false" ELSE "true")

\* growth of a, copy construction and copy assignment between a and b
NextAssign ==
  \/ \E t \in Values : push_back("a", t) /\ TwoRoom(1)
  \/ \E k \in 0..MaxChunks : reserve("a", k * ChunkSize, -1)
  \/ \E dst \in Containers, src \in Containers, f \in -1..(MaxChunks - 1) :
       copy_ctor(dst, src, f) /\ TwoRoom(Held(src))
  \/ \E dst \in Containers, src \in Containers, f \in -1..(MaxChunks - 1) :
       copy_assign(dst, src, f) /\ TwoRoom(Held(src) - Held(dst))

SpecAssign == Init /\ [][NextAssign]_vars

\* C12: copy assignment has strong exception safety: when an allocation fails
\* while the copy of the right-hand side is built, the assigned-to container
\* (and everything else) keeps its chunks, size, capacity and elements; when
\* the copy succeeds the assigned-to container holds the right-hand side's
\* elements chunk by chunk and the right-hand side is unchanged.
C12_CopyAssignStrong ==
  [][last'.op = "copy_assign" =>
       LET dst == last'.c
           src == last'.src
       IN  IF last'.status = "bad_alloc"
           THEN heap' = heap /\ m_chunks' = m_chunks /\ hist' = hist
           ELSE /\ Contents(heap', m_chunks'[dst]) = Contents(heap, m_chunks[src])
                /\ hist'[dst] = hist[src]
                /\ Contents(heap', m_chunks'[src]) = Contents(heap, m_chunks[src])
                /\ hist'[src] = hist[src]
                /\ src # dst => m_chunks'[src] = m_chunks[src]]_vars

\* an assignment to a non-empty container from a different one has failed
C12_Witness ==
  /\ last.op = "copy_assign" /\ last.status = "bad_alloc"
  /\ last.c # last.src
  /\ hist[last.c] # <<>>
  /\ hist[last.src] # <<>>
  /\ hist[last.c] # hist[last.src]

\* C18: self-assignment c = c leaves size(), capacity() and the element at
\* every logical index as they were.
C18_SelfAssignKeepsValue ==
  [][(last'.op = "copy_assign" /\ last'.c = last'.src /\ last'.status = "ok") =>
       LET c == last'.c
       IN  /\ size(heap', m_chunks'[c]) = size(heap, m_chunks[c])
           /\ capacity(m_chunks'[c]) = capacity(m_chunks[c])
           /\ Contents(heap', m_chunks'[c]) = Contents(heap, m_chunks[c])
           /\ hist'[c] = hist[c]
           /\ \A i \in 0..(size(heap, m_chunks[c]) - 1) :
                subscript(heap', m_chunks'[c], i) = subscript(heap, m_chunks[c], i)]_vars

\* a container of two chunks and two elements has been assigned to itself
C18_Witness ==
  /\ last.op = "copy_assign" /\ last.status = "ok"
  /\ last.c = last.src
  /\ Len(m_chunks[last.c]) >= 2
  /\ Len(hist[last.c]) >= 2

\* growth of two default-constructed containers and swaps
NextSwap ==
  \/ \E c \in Containers, t \in Values : push_back(c, t) /\ TwoRoom(1)
  \/ \E c \in Containers, k \in 0..MaxChunks, f \in -1..(MaxChunks - 1) :
       reserve(c, k * ChunkSize, f)
  \/ \E a \in Containers, b \in Containers : swap(a, b)
  \/ \E l \in Containers, r \in Containers : swap_free(l, r)

SpecSwap == InitTwo /\ [][NextSwap]_vars

SwapOps == {"swap", "swap_free"}

\* C17: swap (member and free) exchanges the two chunk directories and nothing
\* else: each container gets the other's elements, size and capacity, every
\* chunk keeps its contents, and a second swap restores both containers.
C17_SwapExchangesDirectories ==
  [][last'.op \in SwapOps =>
       LET a == last'.c
           b == last'.rhs
       IN  /\ m_chunks'[a] = m_chunks[b] /\ m_chunks'[b] = m_chunks[a]
           /\ hist'[a] = hist[b] /\ hist'[b] = hist[a]
           /\ size(heap', m_chunks'[a]) = size(heap, m_chunks[b])
           /\ size(heap', m_chunks'[b]) = size(heap, m_chunks[a])
           /\ capacity(m_chunks'[a]) = capacity(m_chunks[b])
           /\ capacity(m_chunks'[b]) = capacity(m_chunks[a])
           /\ \A d \in DOMAIN m_chunks \ {a, b} : m_chunks'[d] = m_chunks[d]
           /\ heap' = heap
           /\ swap_chunks(m_chunks', a, b) = m_chunks]_vars

\* two different non-empty containers of different capacity have been swapped
C17_Witness ==
  /\ last.op = "swap_free"
  /\ last.c # last.rhs
  /\ hist[last.c] # <<>> /\ hist[last.rhs] # <<>>
  /\ hist[last.c] # hist[last.rhs]
  /\ Len(m_chunks[last.c]) # Len(m_chunks[last.rhs])

\* ---- iterator arithmetic -------------------------------------------------
\* iterator_base::operator+=(size_type i), called with a signed offset n
it_add(it, n) == [it EXCEPT !.m_index = to_size(@ + to_size(n))]

\* a difference that is not converted to difference_type
it_minus_unsigned(it2, it1) == to_size(it2.m_index - it1.m_index)

\* iterator_base::operator-(const iterator_base&): it2 - it1
it_minus(it2, it1) == to_diff(to_size(it2.m_index - it1.m_index))

\* iterator_base::operator<
it_lt(it1, it2) == it1.m_index < it2.m_index

\* const_iterator(const iterator& it)
const_iterator(it) == iterator_base(it.c, it.m_index)

\* const_iterator::operator==(const const_iterator&), the right operand
\* converted from an iterator
const_eq(cit, it) == it_eq(cit, const_iterator(it))

\* operator==(const iterator& l, const const_iterator& r): r == l
friend_eq(l, r) == const_eq(r, l)

\* it = c.begin()
take_begin(c) ==
  /\ c \in DOMAIN m_chunks
  /\ call.status = "idle"
  /\ iter' = begin(c)
  /\ last' = [op |-> "begin", c |-> c, status |-> "ok"]
  /\ UNCHANGED <<heap, m_chunks, hist, call>>

\* it = c.end()
take_end(c) ==
  /\ c \in DOMAIN m_chunks
  /\ call.status = "idle"
  /\ iter' = end(heap, c, m_chunks[c])
  /\ last' = [op |-> "end", c |-> c, status |-> "ok"]
  /\ UNCHANGED <<heap, m_chunks, hist, call>>

\* it = it + n, for an offset that stays within [begin(), end()]
it_plus(n) ==
  /\ iter.c \in DOMAIN m_chunks
  /\ call.status = "idle"
  /\ iter.m_index + n >= 0
  /\ iter.m_index + n <= size(heap, m_chunks[iter.c])
  /\ iter' = it_add(iter, n)
  /\ last' = [op |-> "operator+", c |-> iter.c, i |-> iter.m_index, n |-> n,
              status |-> "ok"]
  /\ UNCHANGED <<heap, m_chunks, hist, call>>

\* it2 - it, it < it2, it == it2 for it2 = begin() + j, and the comparisons of
\* it with const_iterator(it)
it_compare(j) ==
  /\ iter.c \in DOMAIN m_chunks
  /\ call.status = "idle"
  /\ j <= size(heap, m_chunks[iter.c])
  /\ LET it2 == it_add(begin(iter.c), j)
     IN  last' = [op |-> "compare", c |-> iter.c, status |-> "ok",
                  i1 |-> iter.m_index, i2 |-> it2.m_index,
                  diff |-> it_minus(it2, iter),
                  lt |-> it_lt(iter, it2),
                  eq |-> it_eq(iter, it2),
                  ceq |-> const_eq(const_iterator(iter), iter),
                  ceq_rev |-> friend_eq(iter, const_iterator(iter))]
  /\ UNCHANGED <<heap, m_chunks, hist, call, iter>>

NextIter ==
  \/ \E c \in Containers, t \in Values : push_back(c, t)
  \/ \E c \in Containers : take_begin(c)
  \/ \E c \in Containers : take_end(c)
  \/ \E n \in (0 - MaxSize)..MaxSize : it_plus(n)
  \/ \E j \in 0..MaxSize : it_compare(j)

SpecIter == Init /\ [][NextIter]_vars

\* C15: iterators are positions (container, logical index): it2 - it1 is the
\* signed difference of the indices, it1 < it2 and it1 == it2 compare the
\* indices, it + n is at index i + n for positive and negative n, and
\* const_iterator(it) == it in both operand orders.
C15_IteratorArithmetic ==
  /\ last.op = "compare" =>
       /\ last.diff = last.i2 - last.i1
       /\ last.lt <=> (last.i1 < last.i2)
       /\ last.eq <=> (last.i1 = last.i2)
       /\ last.ceq
       /\ last.ceq_rev
  /\ last.op = "operator+" =>
       /\ iter.c = last.c
       /\ iter.m_index = last.i + last.n

\* an iterator has been subtracted from one at a smaller index
C15_Witness ==
  /\ last.op = "compare"
  /\ last.i2 < last.i1
  /\ last.i2 > 0

\* ---- dereferencing iterators ---------------------------------------------
\* ++it, for an iterator before end()
increment ==
  /\ iter.c \in DOMAIN m_chunks
  /\ call.status = "idle"
  /\ iter.m_index < size(heap, m_chunks[iter.c])
  /\ iter' = it_inc(iter)
  /\ last' = [op |-> "operator++", c |-> iter.c, status |-> "ok"]
  /\ UNCHANGED <<heap, m_chunks, hist, call>>

\* *it, for an iterator whose index is below size() now
deref ==
  /\ iter.c \in DOMAIN m_chunks
  /\ call.status = "idle"
  /\ iter.m_index < size(heap, m_chunks[iter.c])
  /\ \E r \in it_deref(heap, m_chunks, iter) :
       last' = [op |-> "operator*", c |-> iter.c, i |-> iter.m_index,
                status |-> r.status, val |-> r.val]
  /\ UNCHANGED <<heap, m_chunks, hist, call, iter>>

NextDeref ==
  \/ \E c \in Containers, t \in Values : push_back(c, t)
  \/ \E c \in Containers, t \in Values : emplace_back(c, t)
  \/ \E c \in Containers, k \in 0..MaxChunks, f \in -1..(MaxChunks - 1) :
       reserve(c, k * ChunkSize, f)
  \/ \E c \in Containers : take_begin(c)
  \/ \E c \in Containers : take_end(c)
  \/ increment
  \/ deref

SpecDeref == Init /\ [][NextDeref]_vars

\* C16: an iterator dereferences through operator[] at its logical index at
\* the time of the dereference: whatever was appended since it was taken, *it
\* is the element at logical index m_index, and an end() iterator taken before
\* an append yields the appended element.
C16_DerefReadsLogicalIndex ==
  last.op = "operator*" =>
    /\ last.status = "ok"
    /\ last.val = hist[last.c][last.i + 1]

====
